---- MODULE Spec2Model ----
(***************************************************************************)
(* Session lifecycle of whisper's foreign-call interface (src/src/ffi.rs): *)
(* the process-wide WHISPER state behind one tokio Mutex, the four         *)
(* operations whisper_init / whisper_get_ws_ip / whisper_start /           *)
(* whisper_stop called by concurrent foreign threads, the control channel  *)
(* created by whisper_start, and the forward loop that start_whisper       *)
(* launches.  start_whisper itself lives in the crate root, which is not   *)
(* part of the two source files; its loop is modelled from the design      *)
(* document (sections 4.1-4.3).                                            *)
(***************************************************************************)
EXTENDS Integers, Sequences, FiniteSets, TLC

\* ---------------------------------------------------------------- bounds
NumCallers == 2
MaxSessions == 2
MaxConns == 1
MaxAccepts == 2

Callers == 1..NumCallers
Sessions == 1..MaxSessions

\* ---------------------------------------------------------------- Option<T>
None == <<>>
Some(x) == <<x>>
IsSome(o) == o # <<>>
IsNone(o) == o = <<>>
Unwrap(o) == o[1]

\* ---------------------------------------------------------------- arguments
\* ws: *const c_char.  The endpoint names stand for the URL together with
\* what the outside world answers for it.
NullPtr == "NULL"
BadUri == "not a uri"
Unreachable == "ws://unreachable:1/"
NoAddr == "ws://noaddr:1/"
Endpoints == {"ws://a:1/", "ws://b:1/"}
WsArgs == {NullPtr, BadUri, Unreachable, NoAddr} \cup Endpoints
GoodFd == 3
BadFd == -1
Mtu == 1500
\* every ws with a usable descriptor, and an unusable descriptor with a null
\* and with a reachable endpoint
InitArgs ==
  {[fd |-> GoodFd, ws |-> w, mtu |-> Mtu] : w \in WsArgs}
    \cup {[fd |-> BadFd, ws |-> w, mtu |-> Mtu] : w \in {NullPtr, "ws://a:1/"}}
NoArgs == [fd |-> 0, ws |-> NullPtr, mtu |-> 0]

\* Uri::try_from(ws)
UriOk(ws) == ws # BadUri
\* connect_to_wisp(..).await is Ok
ConnectOk(ws) == ws # Unreachable
\* the Option<SocketAddr> that connect_to_wisp yields
PeerAddr(ws) ==
  CASE ws = "ws://a:1/" -> Some([ip |-> "10.0.0.1", port |-> 1])
    [] ws = "ws://b:1/" -> Some([ip |-> "10.0.0.2", port |-> 1])
    [] OTHER -> None
\* create_as_async(&cfg) with cfg.raw_fd(fd) is Ok
FdOk(fd) == fd >= 0
\* SocketAddr::to_string: "ip:port"
to_string(a) == <<a.ip, ":", a.port>>

ValidArgs(a) ==
  /\ a.ws \in Endpoints
  /\ FdOk(a.fd)

\* ---------------------------------------------------------------- state
VARIABLES
  WHISPER,   \* <<Option<WhisperInitState>, Option<WhisperRunningState>>>
  lock,      \* the Mutex around WHISPER: 0 = free, else the caller holding it
  call,      \* per foreign caller: the call it is inside, if any
  last,      \* the call that returned in the step just taken, as its caller saw it
  nchan,     \* number of control channels created so far
  chan,      \* per channel: the queued events and whether the receiver lives
  fwd,       \* per channel: the forward loop that owns its receiving end (none, running,
             \* shutdown = returned on Shutdown, failed = returned on an error)
  conns,     \* the connections accepted by the forward loops, each with its bridge
  initOk,    \* an initialize returned true and no start returned true since
  startOk,   \* a start returned true and no stop returned true since
  epochInits \* initialize calls that returned true since WHISPER was last (None, None)

\* process mode (main.rs)
VARIABLES
  main,      \* where main() stands, and the error it returned or aborted on
  pump,      \* the task driving the multiplexor future: none, running, completed, failed
  accepted,  \* the connections ip_stack.accept() has yielded, in order
  requests,  \* the client_new_stream calls made, in order, each with its result
  tasks      \* the bridge tasks spawned, in order

ffiVars == <<WHISPER, lock, call, last, nchan, chan, fwd, conns, initOk, startOk, epochInits>>

procVars == <<main, pump, accepted, requests, tasks>>

vars == <<ffiVars, procVars>>

Uninitialized == <<None, None>>

\* a caller outside any call
IdleCall == [pc |-> "idle", arg |-> NoArgs, pre |-> Uninitialized, sess |-> 0, ok |-> FALSE]

\* what a returned call looked like from outside: the operation and its
\* arguments, the boolean or string returned, the internal error behind a
\* false/null, WHISPER when the call took the lock (pre) and when it dropped
\* it (post), the resources it touched, the channel it created or signalled,
\* and the value of initOk (start) or startOk (stop) when it returned
NoEvent ==
  [op |-> "none", arg |-> NoArgs, ret |-> FALSE, ip |-> None, err |-> "",
   pre |-> Uninitialized, post |-> Uninitialized, touched |-> {}, sess |-> 0,
   hist |-> FALSE]

\* a call that returned false (or null) without changing WHISPER
Failed(op, a, e) ==
  [NoEvent EXCEPT !.op = op, !.arg = a, !.err = e, !.pre = WHISPER, !.post = WHISPER]

Init ==
  /\ WHISPER = Uninitialized
  /\ lock = 0
  /\ call = [t \in Callers |-> IdleCall]
  /\ last = NoEvent
  /\ nchan = 0
  /\ chan = [s \in Sessions |-> [status |-> "unused", queue |-> <<>>]]
  /\ fwd = [s \in Sessions |-> "none"]
  /\ conns = <<>>
  /\ initOk = FALSE
  /\ startOk = FALSE
  /\ epochInits = 0
  /\ main = [pc |-> "open_pty", err |-> ""]
  /\ pump = "none"
  /\ accepted = <<>>
  /\ requests = <<>>
  /\ tasks = <<>>

Ops == {"init", "get", "start", "stop"}

\* ---------------------------------------------------------------- the Mutex
\* faulty variant: LockFree with a lock that excludes nobody
LockFree_shared == TRUE

\* ffi.rs:48, 83, 115, 144: WHISPER.lock().await resolves only while nobody
\* holds the guard
LockFree == lock = 0

\* ---------------------------------------------------------------- whisper_init
\* faulty variant: AlreadyInitialized testing slot 0 only
AlreadyInitialized_slot0(w) == IsSome(w[1])

\* faulty variant: AlreadyInitialized with the test left out
AlreadyInitialized_never(w) == FALSE

\* ffi.rs:50, the AlreadyInitialized test
AlreadyInitialized(w) == IsSome(w[1]) \/ IsSome(w[2])

WhisperInitState(a) ==
  [mux |-> a.ws, tun |-> a.fd, mtu |-> a.mtu, socketaddr |-> Unwrap(PeerAddr(a.ws))]

\* faulty variant: InitFinish storing the state before the socket address is required
InitFinish_storeFirst(w, a) ==
  IF ~ConnectOk(a.ws)
    THEN [ok |-> FALSE, err |-> "Other", state |-> w, touched |-> {}]
  ELSE IF ~FdOk(a.fd)
    THEN [ok |-> FALSE, err |-> "Other", state |-> w, touched |-> {"transport"}]
  ELSE IF IsNone(PeerAddr(a.ws))
    THEN [ok |-> FALSE, err |-> "NoSocketAddr",
          state |-> <<Some([mux |-> a.ws, tun |-> a.fd, mtu |-> a.mtu,
                            socketaddr |-> [ip |-> "0.0.0.0", port |-> 0]]), w[2]>>,
          touched |-> {"transport", "tun"}]
  ELSE [ok |-> TRUE, err |-> "", state |-> <<Some(WhisperInitState(a)), w[2]>>,
        touched |-> {"transport", "tun"}]

\* ffi.rs:54-71, what the rest of the locked block does once the URI parsed:
\* connect, create the interface, require the socket address, store.
InitFinish(w, a) ==
  IF ~ConnectOk(a.ws)
    THEN [ok |-> FALSE, err |-> "Other", state |-> w, touched |-> {}]
  ELSE IF ~FdOk(a.fd)
    THEN [ok |-> FALSE, err |-> "Other", state |-> w, touched |-> {"transport"}]
  ELSE IF IsNone(PeerAddr(a.ws))
    THEN [ok |-> FALSE, err |-> "NoSocketAddr", state |-> w,
          touched |-> {"transport", "tun"}]
  ELSE [ok |-> TRUE, err |-> "", state |-> <<Some(WhisperInitState(a)), w[2]>>,
        touched |-> {"transport", "tun"}]

\* ffi.rs:46, 74-76 (and 81, 96-98; 113, 135-137; 142, 156-158): Runtime::new()
\* fails, and the operation returns false, or null, without taking the lock.
\* whisper_init gets here only with a non-null ws, which it has not used yet.
RuntimeFail(t, op) ==
  /\ call[t].pc = "idle"
  /\ op = "start" => nchan < MaxSessions
  /\ last' = [Failed(op, NoArgs, "Runtime") EXCEPT
                !.hist = IF op = "start" THEN initOk ELSE IF op = "stop" THEN startOk ELSE FALSE]
  /\ UNCHANGED <<WHISPER, lock, call, nchan, chan, fwd, conns, initOk, startOk, epochInits>>
  /\ UNCHANGED procVars

\* the foreign caller enters whisper_init (ffi.rs:39-46): a null ws returns
\* false at once; otherwise the runtime is built and the block started
InitCall(t, a) ==
  /\ call[t].pc = "idle"
  /\ IF a.ws = NullPtr
       THEN last' = Failed("init", a, "NullWs") /\ call' = call
     ELSE /\ call' = [call EXCEPT ![t] = [IdleCall EXCEPT !.pc = "init_lock", !.arg = a]]
          /\ last' = NoEvent
  /\ UNCHANGED <<WHISPER, lock, nchan, chan, fwd, conns, initOk, startOk, epochInits>>
  /\ UNCHANGED procVars

\* ffi.rs:48-57: take the lock, test the state, parse the URI, and suspend in
\* connect_to_wisp(..).await with the guard held
InitLock(t) ==
  /\ call[t].pc = "init_lock"
  /\ LockFree
  /\ IF AlreadyInitialized(WHISPER)
       THEN /\ last' = Failed("init", call[t].arg, "AlreadyInitialized")
            /\ call' = [call EXCEPT ![t] = IdleCall]
            /\ lock' = lock
     ELSE IF ~UriOk(call[t].arg.ws)
       THEN /\ last' = Failed("init", call[t].arg, "Other")
            /\ call' = [call EXCEPT ![t] = IdleCall]
            /\ lock' = lock
     ELSE /\ call' = [call EXCEPT ![t].pc = "init_connect", ![t].pre = WHISPER]
          /\ lock' = t
          /\ last' = NoEvent
  /\ UNCHANGED <<WHISPER, nchan, chan, fwd, conns, initOk, startOk, epochInits>>
  /\ UNCHANGED procVars

\* ffi.rs:58-73: connect_to_wisp resolves; the block runs to its end, the guard
\* is dropped and is_ok() is returned
InitConnect(t) ==
  /\ call[t].pc = "init_connect"
  /\ LET r == InitFinish(WHISPER, call[t].arg) IN
       /\ WHISPER' = r.state
       /\ last' = [NoEvent EXCEPT !.op = "init", !.arg = call[t].arg, !.ret = r.ok,
                                  !.err = r.err, !.pre = call[t].pre, !.post = r.state,
                                  !.touched = r.touched]
       /\ initOk' = (initOk \/ r.ok)
       /\ epochInits' = IF r.ok THEN epochInits + 1 ELSE epochInits
  /\ call' = [call EXCEPT ![t] = IdleCall]
  /\ lock' = 0
  /\ UNCHANGED <<nchan, chan, fwd, conns, startOk>>
  /\ UNCHANGED procVars

\* ---------------------------------------------------------------- whisper_get_ws_ip
\* faulty variant: GetWsIp reading the Initialized slot only
GetWsIp_slot0(w) ==
  IF IsSome(w[1]) THEN Some(to_string(Unwrap(w[1]).socketaddr)) ELSE None

\* ffi.rs:84-90
GetWsIp(w) ==
  IF IsSome(w[1]) THEN Some(to_string(Unwrap(w[1]).socketaddr))
  ELSE IF IsSome(w[2]) THEN Some(to_string(Unwrap(w[2]).socketaddr))
  ELSE None

\* ffi.rs:80-82
GetCall(t) ==
  /\ call[t].pc = "idle"
  /\ call' = [call EXCEPT ![t] = [IdleCall EXCEPT !.pc = "get_lock"]]
  /\ last' = NoEvent
  /\ UNCHANGED <<WHISPER, lock, nchan, chan, fwd, conns, initOk, startOk, epochInits>>
  /\ UNCHANGED procVars

\* ffi.rs:83-95: no suspension point between taking and dropping the guard
GetLock(t) ==
  /\ call[t].pc = "get_lock"
  /\ LockFree
  /\ last' = [Failed("get", NoArgs, IF IsNone(GetWsIp(WHISPER)) THEN "NotInitialized" ELSE "")
                EXCEPT !.ip = GetWsIp(WHISPER)]
  /\ call' = [call EXCEPT ![t] = IdleCall]
  /\ UNCHANGED <<WHISPER, lock, nchan, chan, fwd, conns, initOk, startOk, epochInits>>
  /\ UNCHANGED procVars

\* ---------------------------------------------------------------- whisper_start
WhisperRunningState(addr, c) == [socketaddr |-> addr, channel |-> c]

\* faulty variant: StartState reading slot 0 without taking it
StartState_noTake(w, c) == <<w[1], Some(WhisperRunningState(Unwrap(w[1]).socketaddr, c))>>

\* faulty variant: StartState with the address not carried over
StartState_newAddr(w, c) ==
  <<None, Some(WhisperRunningState([ip |-> "0.0.0.0", port |-> 0], c))>>

\* ffi.rs:119-129: whisper.0.take(), then whisper.1.replace(..) with the
\* address of the state taken and the sender of the new channel c
StartState(w, c) == <<None, Some(WhisperRunningState(Unwrap(w[1]).socketaddr, c))>>

\* the start calls that may still create a channel
StartsInFlight == Cardinality({u \in Callers : call[u].pc = "start_lock"})

\* ffi.rs:112-114
StartCall(t) ==
  /\ call[t].pc = "idle"
  /\ nchan + StartsInFlight < MaxSessions
  /\ call' = [call EXCEPT ![t] = [IdleCall EXCEPT !.pc = "start_lock"]]
  /\ last' = NoEvent
  /\ UNCHANGED <<WHISPER, lock, nchan, chan, fwd, conns, initOk, startOk, epochInits>>
  /\ UNCHANGED procVars

\* ffi.rs:115-130: take the lock, test the state, move Initialized into
\* Running with a fresh channel, and suspend in start_whisper(..).await with
\* the guard held
StartLock(t) ==
  /\ call[t].pc = "start_lock"
  /\ LockFree
  /\ IF IsSome(WHISPER[2])
       THEN /\ last' = [Failed("start", NoArgs, "AlreadyStarted") EXCEPT !.hist = initOk]
            /\ call' = [call EXCEPT ![t] = IdleCall]
            /\ UNCHANGED <<WHISPER, lock, nchan, chan>>
     ELSE IF IsNone(WHISPER[1])
       THEN /\ last' = [Failed("start", NoArgs, "NotInitialized") EXCEPT !.hist = initOk]
            /\ call' = [call EXCEPT ![t] = IdleCall]
            /\ UNCHANGED <<WHISPER, lock, nchan, chan>>
     ELSE /\ nchan' = nchan + 1
          /\ chan' = [chan EXCEPT ![nchan + 1] = [status |-> "open", queue |-> <<>>]]
          /\ WHISPER' = StartState(WHISPER, nchan + 1)
          /\ call' = [call EXCEPT ![t].pc = "start_await", ![t].pre = WHISPER,
                                  ![t].sess = nchan + 1]
          /\ lock' = t
          /\ last' = NoEvent
  /\ UNCHANGED <<fwd, conns, initOk, startOk, epochInits>>
  /\ UNCHANGED procVars

\* start_whisper(mux, tun, mtu, rx) (crate root): either the forward loop is
\* scheduled, owning the receiver, and Ok comes back, or the launch fails, the
\* receiver is dropped with the other arguments and Err comes back.
StartWhisper(t, ok) ==
  /\ call[t].pc = "start_await"
  /\ LET s == call[t].sess IN
       IF ok
         THEN /\ fwd' = [fwd EXCEPT ![s] = "running"]
              /\ chan' = chan
         ELSE /\ fwd' = fwd
              /\ chan' = [chan EXCEPT ![s].status = "closed"]
  /\ call' = [call EXCEPT ![t].pc = "start_ret", ![t].ok = ok]
  /\ last' = NoEvent
  /\ UNCHANGED <<WHISPER, lock, nchan, initOk, startOk, epochInits, conns>>
  /\ UNCHANGED procVars

\* faulty variant: StartGuardDrop with the guard kept alive
StartGuardDrop_leak(t) == lock

\* ffi.rs:133: the async block ends and the guard is dropped
StartGuardDrop(t) == IF lock = t THEN 0 ELSE lock

\* ffi.rs:130-134: the result of start_whisper is the result of the call
StartReturn(t) ==
  /\ call[t].pc = "start_ret"
  /\ last' = [NoEvent EXCEPT !.op = "start", !.ret = call[t].ok,
                             !.err = IF call[t].ok THEN "" ELSE "Other",
                             !.pre = call[t].pre, !.post = WHISPER,
                             !.sess = call[t].sess, !.hist = initOk]
  /\ call' = [call EXCEPT ![t] = IdleCall]
  /\ lock' = StartGuardDrop(t)
  /\ initOk' = (initOk /\ ~call[t].ok)
  /\ startOk' = (startOk \/ call[t].ok)
  /\ UNCHANGED <<WHISPER, nchan, chan, fwd, conns, epochInits>>
  /\ UNCHANGED procVars

\* ---------------------------------------------------------------- whisper_stop
\* faulty variant: StopState reading slot 1 without taking it
StopState_noTake(w) == w

\* ffi.rs:148-149: whisper.1.take()
StopState(w) == <<w[1], None>>

\* faulty variant: SendOk succeeding on every channel ever created
SendOk_anyChannel(c) == chan[c].status # "unused"

\* faulty variant: SendOk with the result of send discarded
SendOk_ignored(c) == TRUE

\* UnboundedSender::send is Ok exactly while the receiver has not been dropped
SendOk(c) == chan[c].status = "open"

\* faulty variant: Send without the send
Send_nothing(c) == chan

\* ffi.rs:150-152: channel.send(WhisperEvent::EndFut)
Send(c) ==
  IF SendOk(c) THEN [chan EXCEPT ![c].queue = Append(@, "EndFut")] ELSE chan

\* ffi.rs:141-143
StopCall(t) ==
  /\ call[t].pc = "idle"
  /\ call' = [call EXCEPT ![t] = [IdleCall EXCEPT !.pc = "stop_lock"]]
  /\ last' = NoEvent
  /\ UNCHANGED <<WHISPER, lock, nchan, chan, fwd, conns, initOk, startOk, epochInits>>
  /\ UNCHANGED procVars

\* ffi.rs:144-155: no suspension point between taking and dropping the guard
StopLock(t) ==
  /\ call[t].pc = "stop_lock"
  /\ LockFree
  /\ IF IsNone(WHISPER[2])
       THEN /\ last' = [Failed("stop", NoArgs, "NotStarted") EXCEPT !.hist = startOk]
            /\ UNCHANGED <<WHISPER, chan, startOk, epochInits>>
     ELSE LET c == Unwrap(WHISPER[2]).channel IN
          /\ WHISPER' = StopState(WHISPER)
          /\ chan' = Send(c)
          /\ last' = [NoEvent EXCEPT !.op = "stop", !.ret = SendOk(c),
                                     !.err = IF SendOk(c) THEN "" ELSE "Other",
                                     !.pre = WHISPER, !.post = StopState(WHISPER),
                                     !.sess = c, !.hist = startOk]
          /\ startOk' = (startOk /\ ~SendOk(c))
          /\ epochInits' = IF StopState(WHISPER) = Uninitialized THEN 0 ELSE epochInits
  /\ call' = [call EXCEPT ![t] = IdleCall]
  /\ UNCHANGED <<lock, nchan, fwd, conns, initOk>>
  /\ UNCHANGED procVars

\* ---------------------------------------------------------------- forward loop
\* (design document 4.2, 4.3; the loop body is in the crate root)
ConnKinds == {"Tcp", "Udp", "Other"}

\* the accept source yields a connection.  A TCP or UDP connection asks the
\* multiplexor for a stream and, with the stream, a bridge is spawned; any
\* other kind is ignored.  The loop goes on: it ends only on Shutdown or on a
\* fatal error of the accept source.
LoopAccept(s, kind, streamOk) ==
  /\ fwd[s] = "running"
  /\ Len(conns) < MaxConns
  /\ kind = "Other" => streamOk
  /\ conns' = Append(conns, [sess |-> s, kind |-> kind,
                             bridge |-> IF kind # "Other" /\ streamOk
                                          THEN "copying" ELSE "none"])
  /\ last' = NoEvent
  /\ UNCHANGED <<WHISPER, lock, call, nchan, chan, fwd, initOk, startOk, epochInits>>
  /\ UNCHANGED procVars

\* the control channel yields Shutdown: the loop returns, dropping the receiver
LoopShutdown(s) ==
  /\ fwd[s] = "running"
  /\ chan[s].queue # <<>>
  /\ fwd' = [fwd EXCEPT ![s] = "shutdown"]
  /\ chan' = [chan EXCEPT ![s] = [status |-> "closed", queue |-> Tail(@.queue)]]
  /\ last' = NoEvent
  /\ UNCHANGED <<WHISPER, lock, call, nchan, conns, initOk, startOk, epochInits>>
  /\ UNCHANGED procVars

\* the accept source reports a fatal I/O error: the loop returns
LoopFatal(s) ==
  /\ fwd[s] = "running"
  /\ fwd' = [fwd EXCEPT ![s] = "failed"]
  /\ chan' = [chan EXCEPT ![s].status = "closed"]
  /\ last' = NoEvent
  /\ UNCHANGED <<WHISPER, lock, call, nchan, conns, initOk, startOk, epochInits>>
  /\ UNCHANGED procVars

\* a bridge ends: end-of-stream on either side, or an I/O error that is logged
BridgeEnd(i, how) ==
  /\ i \in DOMAIN conns
  /\ conns[i].bridge = "copying"
  /\ conns' = [conns EXCEPT ![i].bridge = how]
  /\ last' = NoEvent
  /\ UNCHANGED <<WHISPER, lock, call, nchan, chan, fwd, initOk, startOk, epochInits>>
  /\ UNCHANGED procVars

\* ---------------------------------------------------------------- process mode
\* main.rs:62, 65, 75, 78: the kinds ip_stack.accept() yields; Tcp and Udp have
\* a StreamType, every other kind falls to `_ => {}`
StreamKinds == {"Tcp", "Udp"}

\* peers as tcp.peer_addr() / udp.peer_addr() give them (main.rs:63, 76)
PeerAddrs ==
  {[ip |-> <<93, 184, 216, 34>>, port |-> 443], [ip |-> <<10, 0, 10, 1>>, port |-> 53]}

\* addr.ip().to_string() (main.rs:65, 78): dotted decimal
ip_to_string(ip) == <<ip[1], ".", ip[2], ".", ip[3], ".", ip[4]>>

\* faulty variant: StreamKey asking for a Tcp stream whatever the kind
StreamKey_tcpOnly(kind, addr) == <<"Tcp", ip_to_string(addr.ip), addr.port>>

\* main.rs:65, 78: the arguments of client_new_stream
StreamKey(kind, addr) == <<kind, ip_to_string(addr.ip), addr.port>>

\* main() returned Err(e) through a `?`: the runtime is dropped with every task
Returned(e) == [pc |-> "returned", err |-> e]

\* the process still runs
ProcAlive == main.pc \notin {"returned", "aborted"}

\* main.rs:31
OpenPty(ok) ==
  /\ main.pc = "open_pty"
  /\ main' = IF ok THEN [main EXCEPT !.pc = "mux_new"] ELSE Returned("pty")
  /\ UNCHANGED <<pump, accepted, requests, tasks>>
  /\ UNCHANGED ffiVars

\* main.rs:32-39: ClientMux::new, and the task spawned to drive its future
MuxNew(ok) ==
  /\ main.pc = "mux_new"
  /\ IF ok
       THEN main' = [main EXCEPT !.pc = "create_tun"] /\ pump' = "running"
     ELSE main' = Returned("mux") /\ pump' = pump
  /\ UNCHANGED <<accepted, requests, tasks>>
  /\ UNCHANGED ffiVars

\* main.rs:41-57
CreateTun(ok) ==
  /\ main.pc = "create_tun"
  /\ main' = IF ok THEN [main EXCEPT !.pc = "accept"] ELSE Returned("tun")
  /\ UNCHANGED <<pump, accepted, requests, tasks>>
  /\ UNCHANGED ffiVars

\* main.rs:35: fut.await resolves Ok; the task ends and nothing else happens
PumpComplete ==
  /\ ProcAlive
  /\ pump = "running"
  /\ pump' = "completed"
  /\ UNCHANGED <<main, accepted, requests, tasks>>
  /\ UNCHANGED ffiVars

\* faulty variant: PumpFailed that only reports the error
PumpFailed_logOnly(m) == m

\* main.rs:36-37: eprintln!, then abort()
PumpFailed(m) == [pc |-> "aborted", err |-> "pump"]

\* main.rs:35-38: fut.await resolves Err
PumpError ==
  /\ ProcAlive
  /\ pump = "running"
  /\ pump' = "failed"
  /\ main' = PumpFailed(main)
  /\ UNCHANGED <<accepted, requests, tasks>>
  /\ UNCHANGED ffiVars

\* main.rs:61-66, 75-79, 88: accept() yields a connection; for Tcp and Udp
\* client_new_stream is called and awaited, any other kind is dropped and the
\* loop goes round
Accept(kind, addr) ==
  /\ main.pc = "accept"
  /\ Len(accepted) < MaxAccepts
  /\ accepted' = Append(accepted, [kind |-> kind, peer |-> addr])
  /\ IF kind \in StreamKinds
       THEN /\ requests' = Append(requests, [conn |-> Len(accepted) + 1,
                                             key |-> StreamKey(kind, addr),
                                             res |-> "pending"])
            /\ main' = [main EXCEPT !.pc = "new_stream"]
     ELSE UNCHANGED <<requests, main>>
  /\ UNCHANGED <<pump, tasks>>
  /\ UNCHANGED ffiVars

\* faulty variant: AcceptFailed that notes the error and accepts again
AcceptFailed_retry(m) == [m EXCEPT !.err = "accept"]

\* main.rs:61: `ip_stack.accept().await?` on Err
AcceptFailed(m) == Returned("accept")

\* main.rs:61
AcceptError ==
  /\ main.pc = "accept"
  /\ main' = AcceptFailed(main)
  /\ UNCHANGED <<pump, accepted, requests, tasks>>
  /\ UNCHANGED ffiVars

\* faulty variant: StreamFailed that skips the connection and accepts again
StreamFailed_skip(m) == [pc |-> "accept", err |-> "stream"]

\* main.rs:66, 79: `.await?` on the Err of client_new_stream
StreamFailed(m) == Returned("stream")

\* main.rs:64-73, 77-86: client_new_stream resolves; Ok spawns the task that
\* copies between the connection just accepted and the stream just opened
NewStream(ok) ==
  /\ main.pc = "new_stream"
  /\ IF ok
       THEN /\ tasks' = Append(tasks, [conn |-> Len(accepted), stream |-> Len(requests),
                                        state |-> "copying"])
            /\ main' = [main EXCEPT !.pc = "accept"]
     ELSE /\ tasks' = tasks
          /\ main' = StreamFailed(main)
  /\ requests' = [requests EXCEPT ![Len(requests)].res = IF ok THEN "ok" ELSE "err"]
  /\ UNCHANGED <<pump, accepted>>
  /\ UNCHANGED ffiVars

\* faulty variant: BridgeExit taking every bridge down with it on an error
BridgeExit_all(ts, i, how) ==
  IF how = "failed"
    THEN [j \in DOMAIN ts |-> [ts[j] EXCEPT !.state = "failed"]]
  ELSE [ts EXCEPT ![i].state = how]

\* main.rs:69-73, 82-86: the task ends with copy_bidirectional, whose Err is
\* printed and goes nowhere
BridgeExit(ts, i, how) == [ts EXCEPT ![i].state = how]

\* main.rs:70, 83: copy_bidirectional resolves, Ok (closed) or Err (failed)
Copy(i, how) ==
  /\ ProcAlive
  /\ i \in DOMAIN tasks
  /\ tasks[i].state = "copying"
  /\ tasks' = BridgeExit(tasks, i, how)
  /\ UNCHANGED <<main, pump, accepted, requests>>
  /\ UNCHANGED ffiVars

\* ---------------------------------------------------------------- specification
CallerStep(t) ==
  \/ \E op \in Ops : RuntimeFail(t, op)
  \/ \E a \in InitArgs : InitCall(t, a)
  \/ InitLock(t)
  \/ InitConnect(t)
  \/ GetCall(t)
  \/ GetLock(t)
  \/ StartCall(t)
  \/ StartLock(t)
  \/ \E ok \in BOOLEAN : StartWhisper(t, ok)
  \/ StartReturn(t)
  \/ StopCall(t)
  \/ StopLock(t)

LoopStep(s) ==
  \/ \E kind \in ConnKinds, streamOk \in BOOLEAN : LoopAccept(s, kind, streamOk)
  \/ LoopShutdown(s)
  \/ LoopFatal(s)

Next ==
  \/ \E t \in Callers : CallerStep(t)
  \/ \E s \in Sessions : LoopStep(s)
  \/ \E i \in 1..MaxConns, how \in {"closed", "failed"} : BridgeEnd(i, how)

\* foreign callers, forward loops and bridges
Spec == Init /\ [][Next]_vars

\* The session lifecycle alone: the foreign callers, and the forward loops
\* only as far as WHISPER's channel can tell (they end, on Shutdown or by
\* themselves).  Accepted connections and bridges never touch WHISPER, the
\* lock or a channel except by ending the loop, which LoopFatal covers.
LifecycleNext ==
  \/ \E t \in Callers : CallerStep(t)
  \/ \E s \in Sessions : LoopShutdown(s) \/ LoopFatal(s)

LifecycleSpec == Init /\ [][LifecycleNext]_vars

\* process mode: main(), the pump task and the bridge tasks
ProcessNext ==
  \/ \E ok \in BOOLEAN : OpenPty(ok)
  \/ \E ok \in BOOLEAN : MuxNew(ok)
  \/ \E ok \in BOOLEAN : CreateTun(ok)
  \/ PumpComplete
  \/ PumpError
  \/ \E kind \in ConnKinds, addr \in PeerAddrs : Accept(kind, addr)
  \/ AcceptError
  \/ \E ok \in BOOLEAN : NewStream(ok)
  \/ \E i \in 1..MaxAccepts, how \in {"closed", "failed"} : Copy(i, how)

ProcessSpec == Init /\ [][ProcessNext]_vars

\* Scheduling.  The block that holds the lock waits for nothing but its own
\* collaborator (connect_to_wisp, start_whisper), so it runs on to the end
\* (WF; at most one caller holds the lock).  tokio's Mutex queues its waiters
\* first come, first served, so a caller waiting for the lock gets it if it
\* keeps being released (SF).
HolderStep(t) ==
  \/ InitConnect(t)
  \/ \E ok \in BOOLEAN : StartWhisper(t, ok)
  \/ StartReturn(t)

CallerFairness ==
  /\ WF_vars(\E t \in Callers : HolderStep(t))
  /\ \A t \in Callers : SF_vars(GetLock(t) \/ StopLock(t))

\* a forward loop polls its control channel on every turn, so a Shutdown that
\* is waiting there is received
LoopFairness == \A s \in Sessions : WF_vars(LoopShutdown(s))

CallerFairSpec == Spec /\ CallerFairness

LoopFairSpec == Spec /\ LoopFairness

\* ---------------------------------------------------------------- claims

\* C1: an initialize() that finds the session Initialized or Running returns
\* false and leaves the stored state exactly as it found it.
C1_InitOnlyFromUninitialized ==
  (last.op = "init" /\ last.pre # Uninitialized)
    => /\ ~last.ret
       /\ last.post = last.pre
       /\ WHISPER = last.pre

\* a second initialize with valid arguments has just been refused in state Initialized
C1_Witness ==
  /\ last.op = "init"
  /\ ValidArgs(last.arg)
  /\ IsSome(last.pre[1])
  /\ last.err = "AlreadyInitialized"

\* C2: a start() that returns true follows an initialize() that returned true
\* with no start() returning true in between; it found the state Initialized,
\* consumed it and left Running.
C2_StartOnlyFromInitialized ==
  (last.op = "start" /\ last.ret)
    => /\ last.hist
       /\ IsSome(last.pre[1]) /\ IsNone(last.pre[2])
       /\ IsNone(last.post[1]) /\ IsSome(last.post[2])
       /\ WHISPER = last.post

\* a start() has just returned true
C2_Witness ==
  /\ last.op = "start"
  /\ last.ret
  /\ fwd[last.sess] = "running"

\* C3: a stop() that returns true follows a start() that returned true with no
\* stop() returning true in between; it found the state Running.
C3_StopOnlyFromRunning ==
  (last.op = "stop" /\ last.ret)
    => /\ last.hist
       /\ IsSome(last.pre[2])

\* a stop() has just returned true
C3_Witness ==
  /\ last.op = "stop"
  /\ last.ret
  /\ chan[last.sess].queue = <<"EndFut">>

\* C4: a start() that returns false leaves the session state as it found it.
\* Violated: whisper_start has already moved Initialized into Running when
\* start_whisper fails.
C4_FailedStartLeavesState ==
  (last.op = "start" /\ ~last.ret) => last.post = last.pre

\* C5: a stop() that returns false leaves the session state as it found it.
\* Violated: whisper_stop has already taken Running out when the send fails.
C5_FailedStopLeavesState ==
  (last.op = "stop" /\ ~last.ret) => last.post = last.pre

\* C6: an initialize() that returns false from Uninitialized leaves
\* Uninitialized on every failure path: neither slot is populated and
\* queryRemoteAddress() yields null.
C6_FailedInitLeavesUninitialized ==
  (last.op = "init" /\ ~last.ret /\ last.pre = Uninitialized)
    => /\ last.post = Uninitialized
       /\ WHISPER = Uninitialized
       /\ GetWsIp(WHISPER) = None

\* an initialize() has just failed on the last failure path, after the
\* transport was connected and the interface created
C6_Witness ==
  /\ last.op = "init"
  /\ last.pre = Uninitialized
  /\ last.err = "NoSocketAddr"
  /\ last.touched = {"transport", "tun"}

\* C7: among concurrent initialize() calls with valid arguments, the one that
\* finds the session Uninitialized returns true and every other one fails
\* with AlreadyInitialized; no two return true while the session stays
\* populated.
C7_OneInitWins ==
  /\ epochInits <= 1
  /\ (last.op = "init" /\ ValidArgs(last.arg))
       => /\ last.ret <=> last.pre = Uninitialized
          /\ ~last.ret => last.err = "AlreadyInitialized"

\* two callers are inside initialize() with valid, distinct arguments, one
\* holding the lock on an Uninitialized session, the other waiting for it
C7_Witness ==
  \E t, u \in Callers :
    /\ call[t].pc = "init_connect" /\ call[u].pc = "init_lock"
    /\ ValidArgs(call[t].arg) /\ ValidArgs(call[u].arg)
    /\ call[t].arg.ws # call[u].arg.ws
    /\ WHISPER = Uninitialized

\* C10: a stop() that returns true leaves Uninitialized; from Uninitialized
\* queryRemoteAddress() yields null, start() and stop() return false, and an
\* initialize() with valid arguments returns true, so the cycle can repeat.
C10_ReinitAfterStop ==
  /\ (last.op = "stop" /\ last.ret)
       => last.post = Uninitialized /\ WHISPER = Uninitialized
  /\ (last.op = "get" /\ last.err # "Runtime" /\ last.pre = Uninitialized)
       => last.ip = None
  /\ (last.op \in {"start", "stop"} /\ last.pre = Uninitialized) => ~last.ret
  /\ (last.op = "init" /\ ValidArgs(last.arg) /\ last.pre = Uninitialized) => last.ret

\* the second initialize/start/stop cycle has just completed
C10_Witness ==
  /\ last.op = "stop"
  /\ last.ret
  /\ last.sess = 2
  /\ fwd[1] = "shutdown"

ConnsOf(cs, s) == SelectSeq(cs, LAMBDA c : c.sess = s)

C11_AddressSurvivesStart ==
  (last.op = "start" /\ last.ret) =>
     /\ IsSome(last.pre[1])
     /\ IsSome(last.post[2])
     /\ Unwrap(last.post[2]).socketaddr = Unwrap(last.pre[1]).socketaddr
     /\ IsSome(GetWsIp(last.pre))
     /\ GetWsIp(last.post) = GetWsIp(last.pre)
     /\ GetWsIp(WHISPER) = GetWsIp(last.pre)

C11_Witness ==
  /\ last.op = "start"
  /\ last.ret
  /\ GetWsIp(last.pre) = Some(<<"10.0.0.2", ":", 1>>)
  /\ GetWsIp(last.post) = Some(<<"10.0.0.2", ":", 1>>)

\* ---------------------------------------------------------------- C12
\* C12: the Initialized slot and the Running slot are never both populated,
\* in any state, the ones inside a call that still holds the lock included.
C12_SlotsExclusive == ~(IsSome(WHISPER[1]) /\ IsSome(WHISPER[2]))

\* a start suspended in start_whisper with the guard held: slot 1 is already
\* filled and slot 0 already empty
C12_Witness ==
  \E t \in Callers :
    /\ call[t].pc = "start_await"
    /\ lock = t
    /\ IsSome(WHISPER[2])
    /\ IsNone(WHISPER[1])

\* ---------------------------------------------------------------- C13
\* C13: a stop called in Running after the forward loop ended on its own finds
\* the receiver gone: the send fails and stop returns false.
C13_StopAfterLoopEnded ==
  (/\ last.op = "stop"
   /\ IsSome(last.pre[2])
   /\ last.sess \in Sessions
   /\ fwd[last.sess] \in {"failed", "shutdown"}) =>
     /\ ~last.ret
     /\ last.err = "Other"

C13_Witness ==
  /\ last.op = "stop"
  /\ IsSome(last.pre[2])
  /\ last.sess \in Sessions
  /\ fwd[last.sess] = "failed"
  /\ ~last.ret

\* ---------------------------------------------------------------- C14
\* C14: a whisper_init with an invalid argument (a null or unparsable ws, or
\* an invalid fd) returns false and has touched no resource: no transport
\* connection opened, no interface created.
C14_InvalidArgTouchesNothing ==
  (/\ last.op = "init"
   /\ \/ last.arg.ws \in {NullPtr, BadUri}
      \/ ~FdOk(last.arg.fd)) =>
     /\ ~last.ret
     /\ last.touched = {}
     /\ last.post = last.pre

\* ---------------------------------------------------------------- C15
\* C15 as stated: whisper_get_ws_ip returns null exactly when WHISPER is
\* (None, None), otherwise the address of the populated slot, and never
\* changes WHISPER.
C15_NullIffUninitialized ==
  (last.op = "get") =>
     /\ IsNone(last.ip) <=> (last.pre = Uninitialized)
     /\ IsSome(last.pre[1]) => last.ip = Some(to_string(Unwrap(last.pre[1]).socketaddr))
     /\ IsSome(last.pre[2]) => last.ip = Some(to_string(Unwrap(last.pre[2]).socketaddr))
     /\ last.post = last.pre
     /\ WHISPER = last.pre

\* C15 amended: the same for every call that got its runtime; a call whose
\* Runtime::new() failed returns null whatever the state, and changes nothing.
C15_NullIffUninitializedOrNoRuntime ==
  (last.op = "get") =>
     /\ last.err # "Runtime" =>
          /\ IsNone(last.ip) <=> (last.pre = Uninitialized)
          /\ IsSome(last.pre[1]) =>
               last.ip = Some(to_string(Unwrap(last.pre[1]).socketaddr))
          /\ IsSome(last.pre[2]) =>
               last.ip = Some(to_string(Unwrap(last.pre[2]).socketaddr))
     /\ last.err = "Runtime" => IsNone(last.ip)
     /\ last.post = last.pre
     /\ WHISPER = last.pre

\* an answer read from the Running slot
C15_Witness ==
  /\ last.op = "get"
  /\ last.err = ""
  /\ IsSome(last.pre[2])
  /\ last.ip = Some(<<"10.0.0.1", ":", 1>>)

\* ---------------------------------------------------------------- C16
\* C16: in process mode an Err of the multiplexor future aborts the process at
\* once, and from then on nothing moves: no connection accepted, no stream
\* requested, no bridge spawned or advanced.  A future that resolves Ok leaves
\* main() where it is, and the process is aborted for no other reason.
C16_PumpErrorAborts ==
  /\ [](pump = "failed" => main = [pc |-> "aborted", err |-> "pump"])
  /\ [](main.pc = "aborted" => pump = "failed")
  /\ [][main.pc = "aborted" => UNCHANGED <<main, accepted, requests, tasks>>]_vars
  /\ [][(pump = "running" /\ pump' = "completed") => main' = main]_vars

\* aborted with a bridge in mid-copy and room for more connections
C16_Witness ==
  /\ pump = "failed"
  /\ main.pc = "aborted"
  /\ Len(accepted) < MaxAccepts
  /\ \E i \in DOMAIN tasks : tasks[i].state = "copying"

\* ---------------------------------------------------------------- C17
\* C17: a bridge that ends on an I/O error changes nothing but itself: every
\* other bridge, main() in its loop, the pump, what was accepted and requested,
\* and WHISPER stay as they are.
C17_BridgeErrorContained ==
  [][\A i \in DOMAIN tasks :
       (tasks[i].state = "copying" /\ tasks'[i].state = "failed") =>
          /\ Len(tasks') = Len(tasks)
          /\ \A j \in DOMAIN tasks \ {i} : tasks'[j] = tasks[j]
          /\ tasks'[i].conn = tasks[i].conn
          /\ main' = main
          /\ pump' = pump
          /\ accepted' = accepted
          /\ requests' = requests
          /\ WHISPER' = WHISPER]_vars

\* one bridge failed, another still copying, the loop waiting in accept
C17_Witness ==
  /\ main.pc = "accept"
  /\ \E i, j \in DOMAIN tasks : tasks[i].state = "failed" /\ tasks[j].state = "copying"

\* ---------------------------------------------------------------- C18
\* C18: every accepted Tcp or Udp connection has exactly one stream request,
\* for (its kind, its peer address in dotted decimal, its peer port), and has
\* exactly one bridge, on that connection and that stream, once the request
\* succeeded and none before; a connection of any other kind has no request
\* and no bridge, and accepting it leaves the loop in accept.
C18_OneStreamOneBridge ==
  /\ [](\A i \in DOMAIN accepted :
          LET c == accepted[i]
              rs == {j \in DOMAIN requests : requests[j].conn = i}
              ts == {k \in DOMAIN tasks : tasks[k].conn = i}
          IN  IF c.kind \in {"Tcp", "Udp"}
                THEN /\ Cardinality(rs) = 1
                     /\ \A j \in rs :
                          /\ requests[j].key =
                               <<c.kind,
                                 <<c.peer.ip[1], ".", c.peer.ip[2], ".",
                                   c.peer.ip[3], ".", c.peer.ip[4]>>,
                                 c.peer.port>>
                          /\ Cardinality(ts) = IF requests[j].res = "ok" THEN 1 ELSE 0
                          /\ \A k \in ts : tasks[k].stream = j
              ELSE rs = {} /\ ts = {})
  /\ [][(Len(accepted') = Len(accepted) + 1
         /\ accepted'[Len(accepted')].kind \notin {"Tcp", "Udp"}) =>
           /\ main.pc = "accept"
           /\ main' = main
           /\ requests' = requests
           /\ tasks' = tasks]_vars

\* a Udp connection bridged and a connection of another kind ignored
C18_Witness ==
  /\ main.pc = "accept"
  /\ \E i, j \in DOMAIN accepted :
       /\ accepted[i].kind = "Udp"
       /\ \E k \in DOMAIN tasks : tasks[k].conn = i
       /\ accepted[j].kind = "Other"

\* ---------------------------------------------------------------- C19
\* C19: an Err of ip_stack.accept() ends the loop at once: main() has
\* returned, nothing is accepted, requested or spawned after it, and the step
\* that ends the loop leaves the bridges as they are, waiting for none.
C19_AcceptErrorEndsLoop ==
  /\ [](main.err = "accept" => main.pc = "returned")
  /\ [][main.err = "accept" => UNCHANGED <<main, accepted, requests, tasks>>]_vars
  /\ [][(main.err # "accept" /\ main'.err = "accept") =>
          /\ main.pc = "accept"
          /\ UNCHANGED <<accepted, requests, tasks>>]_vars

\* the loop ended on an accept error with a bridge still copying
C19_Witness ==
  /\ main = Returned("accept")
  /\ Len(accepted) < MaxAccepts
  /\ \E i \in DOMAIN tasks : tasks[i].state = "copying"

\* ---------------------------------------------------------------- C20
\* C20: in process mode an Err of client_new_stream spawns no bridge for the
\* connection just accepted and ends the loop with that error: main() has
\* returned and no connection is accepted after it.
C20_StreamErrorEndsLoop ==
  /\ [](\A j \in DOMAIN requests :
          requests[j].res = "err" =>
            /\ j = Len(requests)
            /\ main = Returned("stream")
            /\ \A k \in DOMAIN tasks : tasks[k].conn # requests[j].conn)
  /\ [](main.err = "stream" => requests[Len(requests)].res = "err")
  /\ [][main.err = "stream" => UNCHANGED <<main, accepted, requests, tasks>>]_vars

\* the first connection's stream failed to open, with room for more connections
C20_Witness ==
  /\ main = Returned("stream")
  /\ Len(accepted) = 1
  /\ accepted[1].kind \in StreamKinds
  /\ tasks = <<>>

====
